---------------------------- MODULE Spec2Model ----------------------------
(***************************************************************************)
(* A model of toot-relay (src/toot-relay.go): the Web Push -> APNs relay.  *)
(*                                                                         *)
(* Strings the code inspects character by character (the URL path, the     *)
(* Crypto-Key / Encryption / TTL header values, encoded fields) are        *)
(* sequences of one-character strings; strings the code only compares or   *)
(* copies (Content-Encoding, Topic, Urgency) are TLA+ strings.  A byte     *)
(* slice is a sequence of numbers in 0..255.                               *)
(***************************************************************************)
EXTENDS Integers, Sequences, FiniteSets, TLC

(***************************************************************************)
(* Bounds of the model.                                                    *)
(***************************************************************************)
\* Requests handled concurrently (SpecConcurrent).
NumRequests == 2
\* Longest path tail after the "/relay-to/" prefix.
MaxTailLen == 3
\* Longest byte slice given to encode85 (SpecCodec).
MaxBytes == 5
\* Longest header value given to parseKeyValues (SpecParse).
MaxHeaderLen == 5

VARIABLES
    pc,            \* pc[r]: the position of request r's handler goroutine
    request,       \* request[r]: the inbound request (path, body, headers)
    components,    \* components[r]: the handler's local `components`
    notification,  \* notification[r]: the handler's local *apns2.Notification
    payload,       \* payload[r]: the handler's local *payload.Payload
    writer,        \* writer[r]: what the handler wrote to its ResponseWriter
    result,        \* result[r]: what client.Push returned to request r
    now,           \* now[r]: what time.Now() returned to request r (0: not read)
    calls,         \* the notifications handed to the shared client, in order
    bytesIn,       \* SpecCodec: the argument of encode85
    encoded,       \* SpecCodec: encode85's result
    values,        \* SpecParse: the argument of parseKeyValues
    parsed         \* SpecParse: parseKeyValues' result

handlerVars == <<pc, request, components, notification, payload, writer, result, now, calls>>
codecVars == <<bytesIn, encoded>>
parseVars == <<values, parsed>>
vars == <<pc, request, components, notification, payload, writer, result, now, calls,
          bytesIn, encoded, values, parsed>>

(***************************************************************************)
(* Helpers on sequences.                                                   *)
(***************************************************************************)
\* All sequences over S of length at most n.
SeqsUpTo(S, n) == UNION {[1..k -> S] : k \in 0..n}

\* s[from..] (1-based), as Go's s[from-1:].
Drop(s, n) == SubSeq(s, n + 1, Len(s))

\* The position of the first occurrence of c in s, or 0.
IndexOf(s, c) ==
    IF \E i \in 1..Len(s) : s[i] = c
    THEN CHOOSE i \in 1..Len(s) : s[i] = c /\ \A j \in 1..(i - 1) : s[j] # c
    ELSE 0

\* strings.Split(s, sep) for a one-character sep: every separator splits, empty
\* pieces are kept, so the result has (number of separators) + 1 elements.
RECURSIVE Split(_, _)
Split(s, sep) ==
    LET i == IndexOf(s, sep)
    IN  IF i = 0 THEN <<s>>
        ELSE <<SubSeq(s, 1, i - 1)>> \o Split(Drop(s, i), sep)

\* strings.Join(elems, sep) for a one-character sep.
RECURSIVE Join(_, _)
Join(elems, sep) ==
    IF Len(elems) = 0 THEN <<>>
    ELSE IF Len(elems) = 1 THEN elems[1]
    ELSE elems[1] \o <<sep>> \o Join(Tail(elems), sep)

\* strings.FieldsFunc(s, c == sep): the maximal runs of non-separator
\* characters; empty fields are never produced.
FieldsFunc(s, sep) == SelectSeq(Split(s, sep), LAMBDA f : Len(f) > 0)

(***************************************************************************)
(* encode85 (lines 189-231).                                               *)
(***************************************************************************)
z85digits ==
    << "0","1","2","3","4","5","6","7","8","9",
       "a","b","c","d","e","f","g","h","i","j","k","l","m",
       "n","o","p","q","r","s","t","u","v","w","x","y","z",
       "A","B","C","D","E","F","G","H","I","J","K","L","M",
       "N","O","P","Q","R","S","T","U","V","W","X","Y","Z",
       ".","-",":","+","=","^","!","/","*","?","&","<",">",
       "(",")","[","]","{","}","@","%","$","#" >>

\* A uint32 is kept as two 16-bit halves [hi, lo] (value = hi * 65536 + lo), so
\* that no intermediate number leaves the model checker's integer range.
\* binary.BigEndian.Uint32(src): the first four bytes, most significant first.
Uint32(src) == [hi |-> src[1] * 256 + src[2], lo |-> src[3] * 256 + src[4]]

\* value % 85 on a uint32.
Mod85(v) == (((v.hi % 85) * 65536) + v.lo) % 85

\* value / 85 on a uint32 (long division, high half first).
Div85(v) ==
    [hi |-> v.hi \div 85, lo |-> (((v.hi % 85) * 65536) + v.lo) \div 85]

\* The block loop body (lines 207-210): dest[4-i] = z85digits[value%85];
\* value /= 85, for i = 0..4.  Returns the five characters dest[0..4].
RECURSIVE BlockDigits(_, _)
BlockDigits(value, n) ==
    IF n = 0 THEN <<>>
    ELSE BlockDigits(Div85(value), n - 1) \o <<z85digits[Mod85(value) + 1]>>

\* The suffix value (lines 217-222): value = value*256 | src[i].
RECURSIVE SuffixValue(_, _)
SuffixValue(src, n) ==
    IF n = 0 THEN 0 ELSE SuffixValue(src, n - 1) * 256 + src[n]

\* The suffix digits (lines 224-227): dest[suffixLength-i] = z85digits[value%85];
\* value /= 85, for i = 0..suffixLength.  Returns n characters.
RECURSIVE SuffixDigits(_, _)
SuffixDigits(value, n) ==
    IF n = 0 THEN <<>>
    ELSE SuffixDigits(value \div 85, n - 1) \o <<z85digits[(value % 85) + 1]>>

\* The suffix block with one digit per byte: the loop of line 224 stopping at
\* i < suffixLength.
EncodeSuffixShort(src, suffixLength) ==
    SuffixDigits(SuffixValue(src, suffixLength), suffixLength)

\* The suffix block (lines 216-228): suffixLength bytes give suffixLength+1
\* characters.
EncodeSuffix(src, suffixLength) ==
    SuffixDigits(SuffixValue(src, suffixLength), suffixLength + 1)

RECURSIVE EncodeBlocks(_, _)
EncodeBlocks(src, numBlocks) ==
    IF numBlocks = 0 THEN <<>>
    ELSE BlockDigits(Uint32(src), 5) \o EncodeBlocks(Drop(src, 4), numBlocks - 1)

encode85(bytes) ==
    LET numBlocks == Len(bytes) \div 4
        suffixLength == Len(bytes) % 4
    IN  EncodeBlocks(bytes, numBlocks)
        \o (IF suffixLength # 0
            THEN EncodeSuffix(Drop(bytes, 4 * numBlocks), suffixLength)
            ELSE <<>>)

(***************************************************************************)
(* base64.RawURLEncoding.DecodeString (line 165): the URL-safe alphabet,   *)
(* no padding, trailing bits not checked.                                  *)
(***************************************************************************)
encodeURL ==
    << "A","B","C","D","E","F","G","H","I","J","K","L","M",
       "N","O","P","Q","R","S","T","U","V","W","X","Y","Z",
       "a","b","c","d","e","f","g","h","i","j","k","l","m",
       "n","o","p","q","r","s","t","u","v","w","x","y","z",
       "0","1","2","3","4","5","6","7","8","9","-","_" >>

\* The 6-bit value of an alphabet character.
Sextet(c) == IndexOf(encodeURL, c) - 1

\* The bytes of s, whose characters are all in the alphabet and whose length
\* is not 1 modulo 4: every four characters give three bytes, a remainder of
\* two characters one byte, of three characters two bytes.
RECURSIVE DecodeQuanta(_)
DecodeQuanta(s) ==
    IF Len(s) = 0 THEN <<>>
    ELSE IF Len(s) = 2
    THEN <<(Sextet(s[1]) * 64 + Sextet(s[2])) \div 16>>
    ELSE IF Len(s) = 3
    THEN LET v == Sextet(s[1]) * 4096 + Sextet(s[2]) * 64 + Sextet(s[3])
         IN  <<v \div 1024, (v \div 4) % 256>>
    ELSE LET v == Sextet(s[1]) * 262144 + Sextet(s[2]) * 4096
                  + Sextet(s[3]) * 64 + Sextet(s[4])
         IN  <<v \div 65536, (v \div 256) % 256, v % 256>> \o DecodeQuanta(Drop(s, 4))

\* [err, bytes]: err is TRUE for a character outside the alphabet ('=' padding
\* included) or a dangling single character.
DecodeString(s) ==
    IF (\E i \in 1..Len(s) : IndexOf(encodeURL, s[i]) = 0) \/ Len(s) % 4 = 1
    THEN [err |-> TRUE, bytes |-> <<>>]
    ELSE [err |-> FALSE, bytes |-> DecodeQuanta(s)]

(***************************************************************************)
(* parseKeyValues (lines 173-187).                                         *)
(***************************************************************************)
\* parts := strings.Split(entry, "=") (line 182): parts[1] exists only when
\* the entry holds a '='.
PartsNoEquals(entry) == Len(Split(entry, "=")) < 2

\* The value stored for an entry (line 183): parts[1], the text between the
\* first '=' and the second.
EntryValue(entry) == Split(entry, "=")[2]

\* The key of an entry (line 183): parts[0].
EntryKey(entry) == Split(entry, "=")[1]

\* The map after the loop over entries[1..n]: a later entry overwrites an
\* earlier one with the same key.
RECURSIVE EntriesMap(_, _)
EntriesMap(entries, n) ==
    IF n = 0 THEN <<>>
    ELSE LET m == EntriesMap(entries, n - 1)
             k == EntryKey(entries[n])
         IN  [x \in (DOMAIN m) \cup {k} |->
                 IF x = k THEN EntryValue(entries[n]) ELSE m[x]]

\* [panic, m]: panic is the index-out-of-range panic of parts[1] (line 183) on
\* an entry without '='; m is the returned map.
parseKeyValues(vals) ==
    LET entries == FieldsFunc(vals, ";")
    IN  IF \E i \in 1..Len(entries) : PartsNoEquals(entries[i])
        THEN [panic |-> TRUE, m |-> <<>>]
        ELSE [panic |-> FALSE, m |-> EntriesMap(entries, Len(entries))]

(***************************************************************************)
(* encodedValue (lines 158-171).                                           *)
(***************************************************************************)
\* [panic, err, value]: err is "" on success, otherwise the error's text.
encodedValue(headerValue, name, key) ==
    LET keyValues == parseKeyValues(headerValue)
    IN  IF keyValues.panic
        THEN [panic |-> TRUE, err |-> "", value |-> <<>>]
        ELSE IF key \notin DOMAIN keyValues.m
        THEN [panic |-> FALSE, err |-> "Value not found in header", value |-> <<>>]
        ELSE LET dec == DecodeString(keyValues.m[key])
             IN  IF dec.err
                 THEN [panic |-> FALSE, err |-> "illegal base64 data", value |-> <<>>]
                 ELSE [panic |-> FALSE, err |-> "", value |-> encode85(dec.bytes)]

(***************************************************************************)
(* strconv.Atoi (line 112): an optional sign, then decimal digits only.    *)
(***************************************************************************)
decimalDigits == <<"0","1","2","3","4","5","6","7","8","9">>

RECURSIVE DigitsValue(_)
DigitsValue(s) ==
    IF Len(s) = 0 THEN 0
    ELSE DigitsValue(SubSeq(s, 1, Len(s) - 1)) * 10
         + (IndexOf(decimalDigits, s[Len(s)]) - 1)

\* [err, n].  The values of the model stay far inside the int range, so the
\* out-of-range error never arises here.
Atoi(s) ==
    LET signed == Len(s) > 0 /\ s[1] \in {"+", "-"}
        digits == IF signed THEN Tail(s) ELSE s
    IN  IF Len(digits) = 0 \/ \E i \in 1..Len(digits) : IndexOf(decimalDigits, digits[i]) = 0
        THEN [err |-> TRUE, n |-> 0]
        ELSE [err |-> FALSE,
              n |-> IF signed /\ s[1] = "-" THEN 0 - DigitsValue(digits)
                    ELSE DigitsValue(digits)]

(***************************************************************************)
(* The requests, and the values the handler's locals start from.           *)
(***************************************************************************)
Requests == 1..NumRequests

\* The pattern the handler is registered under (line 50): the router hands
\* the handler exactly the paths that start with it.
RelayPrefix == <<"/","r","e","l","a","y","-","t","o","/">>

PathChars == {"a", "/"}

\* The router cleans the request path and redirects when that changes it, so
\* the handler sees no path with an empty segment before its last one.
CleanPath(path) == \A i \in 1..(Len(path) - 1) : ~(path[i] = "/" /\ path[i + 1] = "/")

Paths ==
    {p \in {RelayPrefix \o t : t \in SeqsUpTo(PathChars, MaxTailLen)} : CleanPath(p)}

Bodies == { <<>>, <<134, 79, 210, 111, 255>> }

ContentEncodings == {"aesgcm", "aes128gcm", ""}

\* Crypto-Key header values: absent; dh=AQID;p=AA; dh (no '='); dh=A (a
\* dangling base64 character); dh=AA=B (a second '='); p=AA (no dh field).
CryptoKeys ==
    { <<>>,
      <<"d","h","=","A","Q","I","D",";","p","=","A","A">>,
      <<"d","h">>,
      <<"d","h","=","A">>,
      <<"d","h","=","A","A","=","B">>,
      <<"p","=","A","A">> }

\* Encryption header values: absent; salt=AAAA; salt (no '='); salt=A*.
Encryptions ==
    { <<>>,
      <<"s","a","l","t","=","A","A","A","A">>,
      <<"s","a","l","t">>,
      <<"s","a","l","t","=","A","*">> }

\* TTL header values: absent, 60, 0, -5, x.
TTLs == { <<>>, <<"6","0">>, <<"0">>, <<"-","5">>, <<"x">> }

Topics == {"", "t1"}

Urgencies == {"", "very-low", "low", "normal"}

\* The values time.Now() may return (Unix seconds).
Times == {1000, 2000}

AllRequests ==
    [path : Paths, body : Bodies, contentEncoding : ContentEncodings,
     cryptoKey : CryptoKeys, encryption : Encryptions, ttl : TTLs,
     topic : Topics, urgency : Urgencies]

NoRequest ==
    [path |-> <<>>, body |-> <<>>, contentEncoding |-> "", cryptoKey |-> <<>>,
     encryption |-> <<>>, ttl |-> <<>>, topic |-> "", urgency |-> ""]

PriorityLow == 5
PriorityHigh == 10

\* The zero time.Time: no expiration.
ZeroTime == [set |-> FALSE, unix |-> 0]

\* &apns2.Notification{} (line 69).
ZeroNotification ==
    [DeviceToken |-> <<>>, Topic |-> "", CollapseID |-> "", Priority |-> 0,
     Expiration |-> ZeroTime]

\* The payload before line 75 creates it.
NoPayload ==
    [created |-> FALSE, alert |-> "", mutableContent |-> FALSE,
     contentAvailable |-> FALSE, custom |-> <<>>]

\* payload.Custom(key, value): sets one key of the custom-field map.
Custom(p, key, value) ==
    [p EXCEPT !.custom =
        [x \in (DOMAIN p.custom) \cup {key} |-> IF x = key THEN value ELSE p.custom[x]]]

NoResult ==
    [returned |-> FALSE, err |-> "", StatusCode |-> 0, ApnsID |-> "", Reason |-> ""]

\* What client.Push may return: a transport error, or a response of the
\* delivery network with its status code, ID and reason.
PushResults ==
    { [returned |-> TRUE, err |-> "connection refused", StatusCode |-> 0,
       ApnsID |-> "", Reason |-> ""],
      [returned |-> TRUE, err |-> "", StatusCode |-> 200,
       ApnsID |-> "apns-id-1", Reason |-> ""],
      [returned |-> TRUE, err |-> "", StatusCode |-> 400,
       ApnsID |-> "apns-id-2", Reason |-> "BadDeviceToken"],
      [returned |-> TRUE, err |-> "", StatusCode |-> 410,
       ApnsID |-> "apns-id-3", Reason |-> "Unregistered"] }

\* res.Sent() (line 136): the delivery network answered 200.
Sent(res) == res.StatusCode = 200

\* One response: writer.WriteHeader(status), the headers added before it, and
\* the line written to the body.
Response(status, location, body) ==
    [status |-> status, location |-> location, body |-> body]

(***************************************************************************)
(* handler (lines 59-148), one action per stretch of straight-line code.   *)
(* pc[r] names the stretch request r's goroutine runs next:                *)
(*   idle -> handler -> build -> encoding -> salt -> options -> push       *)
(*        -> pushing -> done,  or  panicked.                               *)
(* A handler that panics (parts[1] out of range, line 183) writes nothing: *)
(* the server recovers the panic of that request's goroutine and drops its *)
(* connection, and the other requests go on.                               *)
(***************************************************************************)
\* The router calls handler for a request, one of `inputs` (line 50).
Receive(r, inputs) ==
    /\ pc[r] = "idle"
    /\ pc' = [pc EXCEPT ![r] = "handler"]
    /\ \E req \in inputs : request' = [request EXCEPT ![r] = req]
    /\ UNCHANGED <<components, notification, payload, writer, result, now, calls,
                   codecVars, parseVars>>

\* Lines 60-67: split the path; fewer than three components is an error.
CheckPath(r) ==
    /\ pc[r] = "handler"
    /\ LET comps == Split(request[r].path, "/")
       IN  /\ components' = [components EXCEPT ![r] = comps]
           /\ IF Len(comps) < 3
              THEN /\ writer' = [writer EXCEPT ![r] =
                          Append(@, Response(500, <<>>,
                                             <<"Invalid URL path:">> \o request[r].path))]
                   /\ pc' = [pc EXCEPT ![r] = "done"]
              ELSE /\ writer' = writer
                   /\ pc' = [pc EXCEPT ![r] = "build"]
    /\ UNCHANGED <<request, notification, payload, result, now, calls,
                   codecVars, parseVars>>

\* Lines 77-79: the custom field x.
WithRoute(p, comps) ==
    IF Len(comps) > 3 THEN Custom(p, "x", Join(Drop(comps, 3), "/")) ELSE p

\* Lines 69-82: the notification, and the payload with p and x.
BuildPayload(r) ==
    /\ pc[r] = "build"
    /\ notification' = [notification EXCEPT ![r] =
            [ZeroNotification EXCEPT !.DeviceToken = components[r][3],
                                     !.Topic = "dev.noppe.snowfox"]]
    /\ payload' = [payload EXCEPT ![r] =
            WithRoute(Custom([created |-> TRUE, alert |-> "trumpet",
                              mutableContent |-> TRUE, contentAvailable |-> TRUE,
                              custom |-> <<>>],
                             "p", encode85(request[r].body)),
                      components[r])]
    /\ pc' = [pc EXCEPT ![r] = "encoding"]
    /\ UNCHANGED <<request, components, writer, result, now, calls,
                   codecVars, parseVars>>

\* The switch with the case "aes128gcm" of line 103 enabled.
SupportedEncodingOrNewer(contentEncoding) ==
    contentEncoding \in {"aesgcm", "aes128gcm"}

\* The switch of line 84: the case "aesgcm" against the default.
SupportedEncoding(contentEncoding) == contentEncoding = "aesgcm"

\* Lines 84-93 and 104-108: the switch, and the public key of the aesgcm case.
PublicKey(r) ==
    /\ pc[r] = "encoding"
    /\ IF SupportedEncoding(request[r].contentEncoding)
       THEN LET publicKey == encodedValue(request[r].cryptoKey, "Crypto-Key", <<"d","h">>)
            IN  IF publicKey.panic
                THEN /\ pc' = [pc EXCEPT ![r] = "panicked"]
                     /\ UNCHANGED <<payload, writer>>
                ELSE IF publicKey.err = ""
                THEN /\ payload' = [payload EXCEPT ![r] = Custom(@, "k", publicKey.value)]
                     /\ pc' = [pc EXCEPT ![r] = "salt"]
                     /\ writer' = writer
                ELSE /\ writer' = [writer EXCEPT ![r] =
                            Append(@, Response(500, <<>>,
                                <<"Error retrieving public key:", publicKey.err>>))]
                     /\ pc' = [pc EXCEPT ![r] = "done"]
                     /\ payload' = payload
       ELSE /\ writer' = [writer EXCEPT ![r] =
                   Append(@, Response(415, <<>>,
                       <<"Unsupported Content-Encoding:", request[r].contentEncoding>>))]
            /\ pc' = [pc EXCEPT ![r] = "done"]
            /\ payload' = payload
    /\ UNCHANGED <<request, components, notification, result, now, calls,
                   codecVars, parseVars>>

\* Salt with the return of line 101 left out: the handler goes on without s.
SaltNoReturn(r) ==
    /\ pc[r] = "salt"
    /\ LET salt == encodedValue(request[r].encryption, "Encryption", <<"s","a","l","t">>)
       IN  IF salt.panic
           THEN /\ pc' = [pc EXCEPT ![r] = "panicked"]
                /\ UNCHANGED <<payload, writer>>
           ELSE IF salt.err = ""
           THEN /\ payload' = [payload EXCEPT ![r] = Custom(@, "s", salt.value)]
                /\ pc' = [pc EXCEPT ![r] = "options"]
                /\ writer' = writer
           ELSE /\ writer' = [writer EXCEPT ![r] =
                       Append(@, Response(500, <<>>,
                           <<"Error retrieving salt:", salt.err>>))]
                /\ pc' = [pc EXCEPT ![r] = "options"]
                /\ payload' = payload
    /\ UNCHANGED <<request, components, notification, result, now, calls,
                   codecVars, parseVars>>

\* Lines 95-102: the salt of the aesgcm case.
Salt(r) ==
    /\ pc[r] = "salt"
    /\ LET salt == encodedValue(request[r].encryption, "Encryption", <<"s","a","l","t">>)
       IN  IF salt.panic
           THEN /\ pc' = [pc EXCEPT ![r] = "panicked"]
                /\ UNCHANGED <<payload, writer>>
           ELSE IF salt.err = ""
           THEN /\ payload' = [payload EXCEPT ![r] = Custom(@, "s", salt.value)]
                /\ pc' = [pc EXCEPT ![r] = "options"]
                /\ writer' = writer
           ELSE /\ writer' = [writer EXCEPT ![r] =
                       Append(@, Response(500, <<>>,
                           <<"Error retrieving salt:", salt.err>>))]
                /\ pc' = [pc EXCEPT ![r] = "done"]
                /\ payload' = payload
    /\ UNCHANGED <<request, components, notification, result, now, calls,
                   codecVars, parseVars>>

\* Lines 111-115: the expiration for a TTL header value, time.Now() being t.
\* time.Duration(ttl) * time.Second is exact for every ttl of the model.
Expiration(seconds, t) ==
    IF seconds # <<>> /\ ~Atoi(seconds).err
    THEN [set |-> TRUE, unix |-> t + Atoi(seconds).n]
    ELSE ZeroTime

\* Lines 121-126.
Priority(urgency) ==
    IF urgency \in {"very-low", "low"} THEN PriorityLow ELSE PriorityHigh

\* Lines 111-126: expiration, collapse ID and priority.  time.Now() is read
\* only when the TTL parses.
Options(r) ==
    /\ pc[r] = "options"
    /\ \E t \in Times :
          /\ notification' = [notification EXCEPT ![r] =
                [@ EXCEPT !.Expiration = Expiration(request[r].ttl, t),
                          !.CollapseID = request[r].topic,
                          !.Priority = Priority(request[r].urgency)]]
          /\ now' = [now EXCEPT ![r] =
                IF Expiration(request[r].ttl, t).set THEN t ELSE 0]
    /\ pc' = [pc EXCEPT ![r] = "push"]
    /\ UNCHANGED <<request, components, payload, writer, result, calls,
                   codecVars, parseVars>>

\* What client.Push receives from request r: the notification, whose Payload
\* field points to the payload.
Dispatched(r) ==
    [request |-> r, notification |-> notification[r], payload |-> payload[r]]

\* Push with the notification kept in one variable shared by all handlers.
PushShared(r) ==
    /\ pc[r] = "push"
    /\ calls' = Append(calls, [Dispatched(1) EXCEPT !.request = r])
    /\ pc' = [pc EXCEPT ![r] = "pushing"]
    /\ UNCHANGED <<request, components, notification, payload, writer, result, now,
                   codecVars, parseVars>>

\* Line 128, the call: the notification is handed to the shared client.
Push(r) ==
    /\ pc[r] = "push"
    /\ calls' = Append(calls, Dispatched(r))
    /\ pc' = [pc EXCEPT ![r] = "pushing"]
    /\ UNCHANGED <<request, components, notification, payload, writer, result, now,
                   codecVars, parseVars>>

\* The response with a rejection answered as a server error.
ResponseForAsError(res) ==
    IF res.err # ""
    THEN Response(500, <<>>, <<"Push error:", res.err>>)
    ELSE IF Sent(res)
    THEN Response(201, <<"https://not-supported/", res.ApnsID>>, <<>>)
    ELSE Response(500, <<>>, <<res.Reason>>)

\* Lines 129-147: the response for what client.Push returned.
ResponseFor(res) ==
    IF res.err # ""
    THEN Response(500, <<>>, <<"Push error:", res.err>>)
    ELSE IF Sent(res)
    THEN Response(201, <<"https://not-supported/", res.ApnsID>>, <<>>)
    ELSE Response(res.StatusCode, <<>>, <<res.Reason>>)

\* Lines 128-147: client.Push returns and the handler answers.
Respond(r) ==
    /\ pc[r] = "pushing"
    /\ \E res \in PushResults :
          /\ result' = [result EXCEPT ![r] = res]
          /\ writer' = [writer EXCEPT ![r] = Append(@, ResponseFor(res))]
    /\ pc' = [pc EXCEPT ![r] = "done"]
    /\ UNCHANGED <<request, components, notification, payload, now, calls,
                   codecVars, parseVars>>

\* One step of request r's handler after the request arrived.
Step(r) ==
    \/ CheckPath(r)
    \/ BuildPayload(r)
    \/ PublicKey(r)
    \/ Salt(r)
    \/ Options(r)
    \/ Push(r)
    \/ Respond(r)

HandlerInit ==
    /\ pc = [r \in Requests |-> "idle"]
    /\ request = [r \in Requests |-> NoRequest]
    /\ components = [r \in Requests |-> <<>>]
    /\ notification = [r \in Requests |-> ZeroNotification]
    /\ payload = [r \in Requests |-> NoPayload]
    /\ writer = [r \in Requests |-> <<>>]
    /\ result = [r \in Requests |-> NoResult]
    /\ now = [r \in Requests |-> 0]
    /\ calls = <<>>

CodecIdle == bytesIn = <<>> /\ encoded = [done |-> FALSE, string |-> <<>>]

ParseIdle == values = <<>> /\ parsed = [done |-> FALSE, panic |-> FALSE, m |-> <<>>]

(***************************************************************************)
(* Spec: one request, with every combination of the inputs above.          *)
(***************************************************************************)
Init == HandlerInit /\ CodecIdle /\ ParseIdle

Next ==
    \/ Receive(1, AllRequests)
    \/ Step(1)

Spec == Init /\ [][Next]_vars

(***************************************************************************)
(* SpecConcurrent: NumRequests handlers run concurrently, their steps      *)
(* interleaved in every order.  Each handles one of a few sample requests: *)
(* two that reach the delivery client (with different paths, bodies and    *)
(* headers), and one for each way of failing before it.                    *)
(***************************************************************************)
ValidCryptoKey == <<"d","h","=","A","Q","I","D",";","p","=","A","A">>

ValidEncryption == <<"s","a","l","t","=","A","A","A","A">>

SampleRequests ==
    { [path |-> RelayPrefix \o <<"a","/","a">>, body |-> <<134, 79, 210, 111, 255>>,
       contentEncoding |-> "aesgcm", cryptoKey |-> ValidCryptoKey,
       encryption |-> ValidEncryption, ttl |-> <<"6","0">>, topic |-> "t1",
       urgency |-> "low"],
      [path |-> RelayPrefix \o <<"a">>, body |-> <<1>>,
       contentEncoding |-> "aesgcm", cryptoKey |-> <<"d","h","=","_","w">>,
       encryption |-> <<"s","a","l","t","=","A","Q">>, ttl |-> <<>>, topic |-> "",
       urgency |-> ""],
      [path |-> RelayPrefix \o <<"a">>, body |-> <<>>,
       contentEncoding |-> "aesgcm", cryptoKey |-> <<"p","=","A","A">>,
       encryption |-> ValidEncryption, ttl |-> <<>>, topic |-> "",
       urgency |-> ""],
      [path |-> RelayPrefix \o <<"a">>, body |-> <<>>,
       contentEncoding |-> "aes128gcm", cryptoKey |-> ValidCryptoKey,
       encryption |-> ValidEncryption, ttl |-> <<>>, topic |-> "",
       urgency |-> ""],
      [path |-> RelayPrefix \o <<"a">>, body |-> <<>>,
       contentEncoding |-> "aesgcm", cryptoKey |-> <<"d","h">>,
       encryption |-> ValidEncryption, ttl |-> <<>>, topic |-> "",
       urgency |-> ""],
      [path |-> RelayPrefix \o <<"a">>, body |-> <<>>,
       contentEncoding |-> "aesgcm", cryptoKey |-> ValidCryptoKey,
       encryption |-> <<"s","a","l","t","=","A","*">>, ttl |-> <<>>, topic |-> "",
       urgency |-> ""] }

NextConcurrent ==
    \E r \in Requests :
        \/ Receive(r, SampleRequests)
        \/ Step(r)

SpecConcurrent == Init /\ [][NextConcurrent]_vars

(***************************************************************************)
(* SpecCodec: encode85 applied to every byte slice of up to MaxBytes bytes *)
(* over ByteSamples.                                                       *)
(***************************************************************************)
ByteSamples == {0, 1, 84, 85, 128, 255}

Encode ==
    /\ ~encoded.done
    /\ encoded' = [done |-> TRUE, string |-> encode85(bytesIn)]
    /\ UNCHANGED <<bytesIn, handlerVars, parseVars>>

InitCodec ==
    /\ HandlerInit
    /\ ParseIdle
    /\ bytesIn \in SeqsUpTo(ByteSamples, MaxBytes)
    /\ encoded = [done |-> FALSE, string |-> <<>>]

NextCodec == Encode

SpecCodec == InitCodec /\ [][NextCodec]_vars

(***************************************************************************)
(* SpecParse: parseKeyValues applied to every header value of up to        *)
(* MaxHeaderLen characters over HeaderChars.                               *)
(***************************************************************************)
HeaderChars == {"d", "A", "=", ";"}

Parse ==
    /\ ~parsed.done
    /\ parsed' = [done |-> TRUE, panic |-> parseKeyValues(values).panic,
                  m |-> parseKeyValues(values).m]
    /\ UNCHANGED <<values, handlerVars, codecVars>>

InitParse ==
    /\ HandlerInit
    /\ CodecIdle
    /\ values \in SeqsUpTo(HeaderChars, MaxHeaderLen)
    /\ parsed = [done |-> FALSE, panic |-> FALSE, m |-> <<>>]

NextParse == Parse

SpecParse == InitParse /\ [][NextParse]_vars

(***************************************************************************)
(* The claims.                                                             *)
(***************************************************************************)
\* The positions of request r's notifications in the client's call log.
CallsOf(r) == {i \in DOMAIN calls : calls[i].request = r}

\* Request r's handler ended without reaching the client: it answered a
\* validation failure, or it panicked.
FailedBeforeDispatch(r) ==
    \/ pc[r] = "panicked"
    \/ pc[r] = "done" /\ ~result[r].returned

\* The notification is the one the request's own path, body and headers give.
BuiltFromOwnRequest(call, r) ==
    LET req == request[r]
        comps == Split(req.path, "/")
        custom == call.payload.custom
    IN  /\ call.notification.DeviceToken = comps[3]
        /\ call.notification.Topic = "dev.noppe.snowfox"
        /\ call.notification.CollapseID = req.topic
        /\ call.notification.Priority =
              (IF req.urgency \in {"very-low", "low"} THEN PriorityLow ELSE PriorityHigh)
        /\ call.payload.created
        /\ call.payload.mutableContent /\ call.payload.contentAvailable
        /\ {"p", "k", "s"} \subseteq DOMAIN custom
        /\ custom["p"] = encode85(req.body)
        /\ custom["k"] = encodedValue(req.cryptoKey, "Crypto-Key", <<"d","h">>).value
        /\ custom["s"] = encodedValue(req.encryption, "Encryption", <<"s","a","l","t">>).value
        /\ ("x" \in DOMAIN custom => custom["x"] = Join(Drop(comps, 3), "/"))

\* C1: under every interleaving, a request is handed to the delivery client
\* at most once; it has been handed over exactly once when its handler is in
\* or past the call, and then the notification is complete and built from
\* that request's own path, body and headers; a request that failed a
\* validation (or whose handler panicked) was never handed over.
C1_NoPartialSuccess ==
    \A r \in Requests :
        /\ Cardinality(CallsOf(r)) <= 1
        /\ (pc[r] = "pushing" \/ (pc[r] = "done" /\ result[r].returned))
              <=> Cardinality(CallsOf(r)) = 1
        /\ FailedBeforeDispatch(r) => CallsOf(r) = {}
        /\ \A i \in CallsOf(r) : BuiltFromOwnRequest(calls[i], r)

\* Two requests with different inputs were both dispatched, while a third
\* handler run (if any) is unconstrained.
C1_Witness ==
    /\ Len(calls) >= 2
    /\ calls[1].request # calls[2].request
    /\ calls[1].payload # calls[2].payload
    /\ pc[calls[1].request] = "done"

\* The characters of the base64url alphabet, and a valid unpadded base64url
\* string.
ValidBase64Url(v) ==
    /\ \A i \in 1..Len(v) : \E j \in 1..Len(encodeURL) : encodeURL[j] = v[i]
    /\ Len(v) % 4 # 1

\* The text of a field before its first '=' (the whole field without one).
FieldKey(f) == IF IndexOf(f, "=") = 0 THEN f ELSE SubSeq(f, 1, IndexOf(f, "=") - 1)

\* The text of a field after its first '='.
FieldValue(f) == Drop(f, IndexOf(f, "="))

\* The header holds a well-formed sub-field `key`: a field key=value whose
\* value is valid base64url.
WellFormedSubField(header, key) ==
    LET fields == FieldsFunc(header, ";")
        mine == {i \in 1..Len(fields) : FieldKey(fields[i]) = key}
    IN  /\ mine # {}
        /\ \A i \in mine :
              /\ IndexOf(fields[i], "=") # 0
              /\ ValidBase64Url(FieldValue(fields[i]))

MalformedCrypto(req) ==
    /\ req.contentEncoding = "aesgcm"
    /\ \/ ~WellFormedSubField(req.cryptoKey, <<"d","h">>)
       \/ ~WellFormedSubField(req.encryption, <<"s","a","l","t">>)

\* C2: an aesgcm request without a well-formed dh or salt sub-field is never
\* handed to the delivery client, and once its handler has ended it has
\* answered 500 naming the public key or the salt.
C2_MalformedCryptoAnswers500 ==
    \A r \in Requests :
        (pc[r] \notin {"idle", "handler", "build", "encoding"} /\ MalformedCrypto(request[r]))
        => /\ CallsOf(r) = {}
           /\ pc[r] \in {"salt", "done"}
           /\ pc[r] = "done" =>
                 /\ Len(writer[r]) = 1
                 /\ writer[r][1].status = 500
                 /\ writer[r][1].body[1] \in
                        {"Error retrieving public key:", "Error retrieving salt:"}

\* C3: a request whose Content-Encoding is not aesgcm has, once the handler
\* is past the switch, been answered 415 and nothing else, and is never
\* dispatched, whatever its other headers are.
C3_UnsupportedEncoding415 ==
    \A r \in Requests :
        (/\ pc[r] \notin {"idle", "handler", "build", "encoding"}
         /\ Len(components[r]) >= 3
         /\ request[r].contentEncoding # "aesgcm")
        => /\ pc[r] = "done"
           /\ Len(writer[r]) = 1
           /\ writer[r][1].status = 415
           /\ ~result[r].returned
           /\ CallsOf(r) = {}

\* An aes128gcm request with valid Crypto-Key and Encryption headers was
\* answered 415.
C3_Witness ==
    \E r \in Requests :
        /\ pc[r] = "done"
        /\ request[r].contentEncoding = "aes128gcm"
        /\ request[r].cryptoKey = ValidCryptoKey
        /\ request[r].encryption = ValidEncryption
        /\ writer[r][1].status = 415

\* C4 as stated: k is set exactly when s is set, in every state of the
\* payload under construction and in every dispatched notification.
C4_KeyIffSaltAlways ==
    /\ \A r \in Requests :
          "k" \in DOMAIN payload[r].custom <=> "s" \in DOMAIN payload[r].custom
    /\ \A i \in DOMAIN calls :
          "k" \in DOMAIN calls[i].payload.custom <=> "s" \in DOMAIN calls[i].payload.custom

\* C4 as amended: every dispatched notification carries both k and s, and
\* the payload under construction never carries s without k.
C4_DispatchedKeyAndSalt ==
    /\ \A i \in DOMAIN calls : {"k", "s"} \subseteq DOMAIN calls[i].payload.custom
    /\ \A r \in Requests :
          "s" \in DOMAIN payload[r].custom => "k" \in DOMAIN payload[r].custom

\* A notification with k and s was dispatched.
C4_Witness ==
    \E i \in DOMAIN calls :
        /\ "k" \in DOMAIN calls[i].payload.custom
        /\ "s" \in DOMAIN calls[i].payload.custom

\* The first path segment after the relay prefix.
TargetSegment(path) == Split(Drop(path, Len(RelayPrefix)), "/")[1]

\* The path segments after the target, joined with '/'.
RouteSuffix(path) == Join(Tail(Split(Drop(path, Len(RelayPrefix)), "/")), "/")

\* C5: a request whose path has an empty target segment is answered 500
\* before any payload is built, and every dispatched notification has a
\* non-empty device token, the first path segment after the prefix.
C5_EmptyTargetRejected ==
    /\ \A r \in Requests :
          (pc[r] \notin {"idle", "handler"} /\ TargetSegment(request[r].path) = <<>>)
          => /\ pc[r] = "done"
             /\ Len(writer[r]) = 1
             /\ writer[r][1].status = 500
             /\ ~payload[r].created
    /\ \A i \in DOMAIN calls :
          /\ calls[i].notification.DeviceToken # <<>>
          /\ calls[i].notification.DeviceToken = TargetSegment(request[calls[i].request].path)

\* C6: the custom field x is present exactly when the route suffix is not
\* empty, and then it is the suffix.
C6_RouteFieldIffSuffix ==
    \A r \in Requests :
        payload[r].created =>
            /\ "x" \in DOMAIN payload[r].custom <=> RouteSuffix(request[r].path) # <<>>
            /\ "x" \in DOMAIN payload[r].custom =>
                  payload[r].custom["x"] = RouteSuffix(request[r].path)

\* The TTL header value parses as a non-negative integer.
NonNegativeTTL(ttl) == ~Atoi(ttl).err /\ Atoi(ttl).n >= 0

\* C7: a dispatched notification has an expiration exactly when the TTL
\* parses as a non-negative integer, and the expiration is then the
\* processing time plus the TTL, never before the processing time.
C7_ExpirationIffNonNegativeTTL ==
    \A i \in DOMAIN calls :
        LET r == calls[i].request
            exp == calls[i].notification.Expiration
        IN  /\ exp.set <=> NonNegativeTTL(request[r].ttl)
            /\ exp.set =>
                  /\ exp.unix = now[r] + Atoi(request[r].ttl).n
                  /\ exp.unix >= now[r]

\* C10: while the call to the client is pending nothing has been answered;
\* once it returned exactly one response exists: 500 with the error text for
\* a transport error, 201 with the Location of the delivery ID for an
\* accepted notification (and 201 only then), and otherwise the client's
\* status code with the reason as body.
C10_ResponseFromOutcome ==
    \A r \in Requests :
        /\ pc[r] = "pushing" => writer[r] = <<>>
        /\ (pc[r] = "done" /\ result[r].returned) =>
              LET res == result[r]
                  w == writer[r][1]
                  accepted == res.err = "" /\ res.StatusCode = 200
              IN  /\ Len(writer[r]) = 1
                  /\ res.err # "" =>
                        w.status = 500 /\ w.body = <<"Push error:", res.err>>
                  /\ accepted =>
                        /\ w.status = 201
                        /\ w.location = <<"https://not-supported/", res.ApnsID>>
                  /\ (res.err = "" /\ ~accepted) =>
                        w.status = res.StatusCode /\ w.body = <<res.Reason>>
                  /\ w.status = 201 <=> accepted

\* A rejected notification was answered with the client's status code, and
\* its reason.
C10_Witness ==
    \E r \in Requests :
        /\ pc[r] = "done"
        /\ result[r].returned /\ result[r].StatusCode = 410
        /\ writer[r] = <<Response(410, <<>>, <<"Unregistered">>)>>

\* C8: for a header value whose fields all hold a '=', parseKeyValues
\* returns the map from each field's text before its first '=' to the text
\* after it (the last field of a key giving its value); the empty header
\* value gives the empty map.
C8_ParseSplitsOnFirstEquals ==
    parsed.done =>
        LET fields == FieldsFunc(values, ";")
        IN  (\A i \in 1..Len(fields) : IndexOf(fields[i], "=") # 0) =>
                /\ ~parsed.panic
                /\ DOMAIN parsed.m = {FieldKey(fields[i]) : i \in 1..Len(fields)}
                /\ \A i \in 1..Len(fields) :
                      (\A j \in (i + 1)..Len(fields) : FieldKey(fields[j]) # FieldKey(fields[i]))
                      => parsed.m[FieldKey(fields[i])] = FieldValue(fields[i])

\* The number a character stands for in the alphabet.
DigitValue(c) == IndexOf(z85digits, c) - 1

\* The value of base-85 digits, most significant first, as 16-bit halves.
RECURSIVE DigitsAsUint32(_)
DigitsAsUint32(ds) ==
    IF Len(ds) = 0 THEN [hi |-> 0, lo |-> 0]
    ELSE LET a == DigitsAsUint32(SubSeq(ds, 1, Len(ds) - 1))
             t == a.lo * 85 + DigitValue(ds[Len(ds)])
         IN  [hi |-> a.hi * 85 + (t \div 65536), lo |-> t % 65536]

\* The value of base-85 digits, most significant first.
RECURSIVE DigitsAsNat(_)
DigitsAsNat(ds) ==
    IF Len(ds) = 0 THEN 0
    ELSE DigitsAsNat(SubSeq(ds, 1, Len(ds) - 1)) * 85 + DigitValue(ds[Len(ds)])

\* The big-endian value of up to three bytes.
RECURSIVE BigEndian(_)
BigEndian(bs) ==
    IF Len(bs) = 0 THEN 0
    ELSE BigEndian(SubSeq(bs, 1, Len(bs) - 1)) * 256 + bs[Len(bs)]

\* C9: for 4n+k bytes encode85 returns 5n characters when k = 0 and 5n+k+1
\* otherwise, all of the alphabet; the five digits of each block are its
\* big-endian 32-bit value, and the k+1 digits of the tail are the big-endian
\* value of its k bytes, most significant digit first.
C9_Encode85Digits ==
    encoded.done =>
        LET n == Len(bytesIn) \div 4
            k == Len(bytesIn) % 4
            str == encoded.string
        IN  /\ Len(str) = (IF k = 0 THEN 5 * n ELSE 5 * n + k + 1)
            /\ \A i \in 1..Len(str) : \E j \in 1..85 : z85digits[j] = str[i]
            /\ \A b \in 0..(n - 1) :
                  DigitsAsUint32(SubSeq(str, 5 * b + 1, 5 * b + 5))
                  = [hi |-> bytesIn[4 * b + 1] * 256 + bytesIn[4 * b + 2],
                     lo |-> bytesIn[4 * b + 3] * 256 + bytesIn[4 * b + 4]]
            /\ k # 0 =>
                  DigitsAsNat(SubSeq(str, 5 * n + 1, 5 * n + k + 1))
                  = BigEndian(SubSeq(bytesIn, 4 * n + 1, 4 * n + k))

\* A full block with its top bit set, followed by a one-byte tail, was
\* encoded to seven characters.
C9_Witness ==
    /\ encoded.done
    /\ bytesIn = <<255, 255, 255, 255, 255>>
    /\ Len(encoded.string) = 7

=============================================================================
